---- MODULE Spec2Model ----
(***************************************************************************)
(* A state-machine model of the Durarara MVP API (src/main.py): the        *)
(* request handlers over the document store, the startup bootstrap, and    *)
(* the nearby-alert distance filter.                                       *)
(*                                                                         *)
(* Spec      the whole API, the requests of one run of the process handled *)
(*           one at a time, each handler as one atomic step.               *)
(* RoomSpec  the same for the room and membership handlers alone.          *)
(* BootSpec  the process restarted over the store it left.                 *)
(* ScanSpec  alerts and nearby queries over a store of about 200 alerts.   *)
(* ConcSpec  create_persona requests interleaved storage call by call.     *)
(* DisciplinedSpec  RoomSpec with join issued for non-members only and     *)
(*           leave for members only.                                       *)
(* MemberSpec  join_room and leave_room requests interleaved storage call  *)
(*           by call.                                                      *)
(***************************************************************************)
EXTENDS Integers, Sequences, FiniteSets, TLC

VARIABLES
    dbAvail,     \* database.db is not None (src/main.py:10)
    started,     \* the process has run its startup event
    persona,     \* db["persona"], in insertion (natural) order
    room,        \* db["room"]
    roommember,  \* db["roommember"]
    message,     \* db["message"]
    alert,       \* db["alert"]
    colls,       \* db.list_collection_names(): the collections written so far
    nextId,      \* the next ObjectId the driver generates
    clock,       \* the last value datetime.now(timezone.utc) returned
    left,        \* requests still to be handled (bounds the exploration)
    inflight,    \* the requests being handled concurrently, by worker
    resp,        \* the response of the last request handled
    hist         \* history variable: the join/leave round trip in progress
                 \* (in MemberSpec: the joins and leaves completed so far)

store == <<persona, room, roommember, message, alert, colls>>
vars == <<dbAvail, started, persona, room, roommember, message, alert, colls,
          nextId, clock, left, inflight, resp, hist>>

----------------------------------------------------------------------------
(* Bounds of the exploration *)

\* requests handled in one behaviour of Spec, BootSpec and ConcSpec
MaxReq == 3

\* requests handled in one behaviour of RoomSpec
MaxRoomReq == 4

\* requests handled in one behaviour of ScanSpec
MaxScanReq == 3

\* requests handled in one behaviour of MemberSpec
MaxMemberReq == 2

\* concurrent request handlers of ConcSpec and MemberSpec
NumWorkers == 2

Workers == 1..NumWorkers

----------------------------------------------------------------------------
(* Inputs *)

TENANT_DEFAULT == "default"

Tenants == {TENANT_DEFAULT, "t2"}

Handles == {"alice", "bob"}

\* (name, type) pairs a RoomCreate payload carries
RoomKinds == {<<"Global", "global">>, <<"Ikebukuro", "city">>}

----------------------------------------------------------------------------
(* Identifiers.  An ObjectId is modelled by a positive integer n; the      *)
(* string a client sends for it is <<"hex", n>> (its 24 hex digits), and   *)
(* <<"bad", 0>> is a string ObjectId() rejects.                            *)

BadId == <<"bad", 0>>

\* str(ObjectId)
StrOfId(oid) == <<"hex", oid>>

\* ObjectId(s) raises InvalidId unless s is 24 hex digits
IsValidIdStr(s) == s[1] = "hex"

\* ObjectId(s) for a valid s
ObjectId(s) == s[2]

\* the id strings a client may send for a document of collection col: those
\* of its documents, a well-formed one no document of col has (the id not
\* generated yet stands for all of them), and a malformed one
IdStrings(col) ==
    {StrOfId(col[i].id) : i \in 1..Len(col)} \cup {StrOfId(nextId), BadId}

----------------------------------------------------------------------------
(* Storage helpers (pymongo collection calls) *)

\* list(col.find(filter)): the matching documents in natural order
Find(col, F(_)) == SelectSeq(col, F)

\* col.find_one(filter) is not None
Exists(col, F(_)) == \E i \in 1..Len(col) : F(col[i])

\* col.insert_one(doc)
InsertOne(col, doc) == Append(col, doc)

\* col.update_one(filter, update): the first matching document is updated
FirstMatch(col, F(_)) == CHOOSE i \in 1..Len(col) : F(col[i]) /\ \A j \in 1..(i-1) : ~F(col[j])

UpdateOne(col, F(_), U(_)) ==
    IF Exists(col, F)
    THEN [col EXCEPT ![FirstMatch(col, F)] = U(@)]
    ELSE col

\* col.delete_one(filter): the first matching document is removed
DeleteOne(col, F(_)) ==
    IF Exists(col, F)
    THEN LET k == FirstMatch(col, F)
         IN SubSeq(col, 1, k-1) \o SubSeq(col, k+1, Len(col))
    ELSE col

----------------------------------------------------------------------------
(* Responses *)

NoArgs == [tenant |-> ""]

Response(op, status, detail, args, body) ==
    [op |-> op, status |-> status, detail |-> detail, args |-> args, body |-> body]

NoResp == Response("none", 0, "", NoArgs, <<>>)

\* chain: "join" after a successful join, "join_leave" after the leave of the
\* same room and persona that follows it at once, "startup" after a startup
\* with storage; base: the room's member_count before that join;
\* was_member: the membership existed before that join
NoHist == [chain |-> "none", base |-> 0, was_member |-> FALSE]

\* no request is in flight
Idle == [w \in Workers |-> [pc |-> "idle"]]

\* a step that handles one request
Tick == /\ left > 0
        /\ left' = left - 1
        /\ UNCHANGED inflight

\* datetime.now(timezone.utc): later than every earlier reading
Now == clock + 1

----------------------------------------------------------------------------
(* Startup bootstrap *)

IsGlobalRoom(r, t) == r.tenant_id = t /\ r.type = "global" /\ r.name = "Global"

RoomDoc(id, t, name, type, now) ==
    [id |-> id, tenant_id |-> t, name |-> name, type |-> type,
     member_count |-> 0, created_at |-> now, updated_at |-> now]

\* col.find_one({"tenant_id": TENANT_DEFAULT, "type": "global", "name": "Global"})
HasGlobalRoom(rooms) ==
    LET G(r) == IsGlobalRoom(r, TENANT_DEFAULT) IN Exists(rooms, G)

ensure_global_room ==
    /\ ~started
    /\ started' = TRUE
    /\ IF dbAvail /\ ~HasGlobalRoom(room)
       THEN /\ room' = InsertOne(room, RoomDoc(nextId, TENANT_DEFAULT, "Global", "global", Now))
            /\ nextId' = nextId + 1
            /\ clock' = Now
            /\ colls' = colls \cup {"room"}
       ELSE UNCHANGED <<room, nextId, clock, colls>>
    /\ resp' = Response("startup", 0, "", NoArgs, <<>>)
    /\ hist' = IF dbAvail THEN [NoHist EXCEPT !.chain = "startup"] ELSE NoHist
    /\ UNCHANGED <<dbAvail, persona, roommember, message, alert, left, inflight>>

\* The process is stopped and started again: the module is imported anew
\* (db is bound again), the store keeps its documents.
Restart ==
    /\ started
    /\ started' = FALSE
    /\ dbAvail' \in BOOLEAN
    /\ resp' = NoResp
    /\ hist' = IF hist.chain = "startup" THEN hist ELSE NoHist
    /\ UNCHANGED <<persona, room, roommember, message, alert, colls, nextId, clock, left, inflight>>

----------------------------------------------------------------------------
(* Personas *)

PersonaDoc(id, t, h, now) ==
    [id |-> id, tenant_id |-> t, handle |-> h, trust_level |-> 1,
     score_thanks |-> 0, score_helpful |-> 0, created_at |-> now,
     updated_at |-> now, is_banned |-> FALSE]

\* the filter {"tenant_id": tenant_id, "handle": payload.handle}
HandleTaken(col, t, h) ==
    LET F(p) == p.tenant_id = t /\ p.handle = h IN Exists(col, F)

DbError(op, args) == Response(op, 500, "Database not configured", args, <<>>)

Fail(r) == /\ resp' = r
           /\ hist' = NoHist
           /\ UNCHANGED <<dbAvail, started, persona, room, roommember, message, alert, colls, nextId>>

C2_HandleTakenAnywhere(col, t, h) ==
    LET F(p) == p.handle = h IN Exists(col, F)

\* lines 97-99: the handle is taken in the tenant
PersonaExists(col, t, h) == HandleTaken(col, t, h)

create_persona(t, h) ==
    LET args == [tenant |-> t, handle |-> h] IN
    /\ started
    /\ Tick
    /\ clock' = Now
    /\ IF ~dbAvail THEN Fail(DbError("create_persona", args))
       ELSE IF PersonaExists(persona, t, h)
       THEN Fail(Response("create_persona", 400, "Handle already taken", args, <<>>))
       ELSE LET doc == PersonaDoc(nextId, t, h, Now) IN
            /\ persona' = InsertOne(persona, doc)
            /\ nextId' = nextId + 1
            /\ resp' = Response("create_persona", 200, "", args, <<[doc EXCEPT !.id = StrOfId(doc.id)]>>)
            /\ hist' = NoHist
            /\ colls' = colls \cup {"persona"}
            /\ UNCHANGED <<dbAvail, started, room, roommember, message, alert>>


\* .limit(200) of list_personas, list_rooms and nearby_alerts
SCAN_LIMIT == 200

Min(a, b) == IF a <= b THEN a ELSE b

Abs(n) == IF n < 0 THEN -n ELSE n

\* cursor.limit(n): 0 means no limit; a negative n asks for a single batch
\* of at most |n| documents
Limit(docs, n) ==
    IF n = 0 THEN docs ELSE SubSeq(docs, 1, Min(Abs(n), Len(docs)))

\* to_str_id: the document with _id replaced by id = str(_id)
to_str_id(doc) == [doc EXCEPT !.id = StrOfId(doc.id)]

MapSeq(s, Op(_)) == [i \in 1..Len(s) |-> Op(s[i])]

C10_list_personas_lenient(t) ==
    LET args == [tenant |-> t]
        F(p) == p.tenant_id = t
    IN
    /\ started
    /\ Tick
    /\ clock' = Now
    /\ Fail(Response("list_personas", 200, "", args,
                     IF dbAvail THEN MapSeq(Limit(Find(persona, F), SCAN_LIMIT), to_str_id)
                     ELSE <<>>))

list_personas(t) ==
    LET args == [tenant |-> t] IN
    /\ started
    /\ Tick
    /\ clock' = Now
    /\ IF ~dbAvail THEN Fail(DbError("list_personas", args))
       ELSE LET F(p) == p.tenant_id = t IN
            Fail(Response("list_personas", 200, "", args,
                          MapSeq(Limit(Find(persona, F), SCAN_LIMIT), to_str_id)))

----------------------------------------------------------------------------
(* Rooms *)

list_rooms(t) ==
    LET args == [tenant |-> t] IN
    /\ started
    /\ Tick
    /\ clock' = Now
    /\ IF ~dbAvail THEN Fail(DbError("list_rooms", args))
       ELSE LET F(r) == r.tenant_id = t IN
            Fail(Response("list_rooms", 200, "", args,
                          MapSeq(Limit(Find(room, F), SCAN_LIMIT), to_str_id)))

create_room(t, kind) ==
    LET args == [tenant |-> t, name |-> kind[1], type |-> kind[2]] IN
    /\ started
    /\ Tick
    /\ clock' = Now
    /\ IF ~dbAvail THEN Fail(DbError("create_room", args))
       ELSE LET doc == RoomDoc(nextId, t, kind[1], kind[2], Now) IN
            /\ room' = InsertOne(room, doc)
            /\ nextId' = nextId + 1
            /\ resp' = Response("create_room", 200, "", args, <<to_str_id(doc)>>)
            /\ hist' = NoHist
            /\ colls' = colls \cup {"room"}
            /\ UNCHANGED <<dbAvail, started, persona, roommember, message, alert>>

\* member_count of the room with _id rid (0 when there is none)
MemberCount(rooms, rid) ==
    LET F(r) == r.id = rid IN
    IF Exists(rooms, F) THEN rooms[FirstMatch(rooms, F)].member_count ELSE 0

\* the filter {"tenant_id": tenant_id, "room_id": room_id, "persona_id": persona_id}
\* of join_room and leave_room: room_id and persona_id are the request's strings
IsMember(members, t, room_id, persona_id) ==
    LET F(m) == m.tenant_id = t /\ m.room_id = room_id /\ m.persona_id = persona_id
    IN Exists(members, F)

C13_InsertMember(members, id, t, room_id, persona_id, now) ==
    InsertOne(members, [id |-> id, tenant_id |-> t, room_id |-> room_id,
                        persona_id |-> persona_id, joined_at |-> now])

\* db["roommember"].update_one(filter, {"$setOnInsert": {"joined_at": now}}, upsert=True)
UpsertMember(members, id, t, room_id, persona_id, now) ==
    IF IsMember(members, t, room_id, persona_id)
    THEN members
    ELSE InsertOne(members, [id |-> id, tenant_id |-> t, room_id |-> room_id,
                             persona_id |-> persona_id, joined_at |-> now])

\* db["room"].update_one({"_id": rid}, {"$inc": {"member_count": d}, "$set": {"updated_at": now}})
IncMemberCount(rooms, rid, d, now) ==
    LET F(r) == r.id = rid
        U(r) == [r EXCEPT !.member_count = @ + d, !.updated_at = now]
    IN UpdateOne(rooms, F, U)

C1_JoinCountOnInsert(rooms, members, t, room_id, persona_id, now) ==
    IF IsMember(members, t, room_id, persona_id)
    THEN rooms
    ELSE IncMemberCount(rooms, ObjectId(room_id), 1, now)

C16_JoinCountRecount(rooms, members, t, room_id, persona_id, now) ==
    LET F(r) == r.id = ObjectId(room_id)
        M(m) == m.tenant_id = t /\ m.room_id = room_id
        n == Len(SelectSeq(UpsertMember(members, 0, t, room_id, persona_id, now), M))
        U(r) == [r EXCEPT !.member_count = n, !.updated_at = now]
    IN UpdateOne(rooms, F, U)

\* line 172 of join_room
JoinCount(rooms, members, t, room_id, persona_id, now) ==
    IncMemberCount(rooms, ObjectId(room_id), 1, now)

C18_LeaveCountKeep(rooms, members, t, room_id, persona_id, now) ==
    LET F(r) == r.id = ObjectId(room_id)
        U(r) == [r EXCEPT !.updated_at = now]
    IN UpdateOne(rooms, F, U)

\* line 180 of leave_room
LeaveCount(rooms, members, t, room_id, persona_id, now) ==
    IncMemberCount(rooms, ObjectId(room_id), -1, now)

C12_join_room_member_first(room_id, persona_id, t) ==
    LET args == [tenant |-> t, room_id |-> room_id, persona_id |-> persona_id] IN
    /\ started
    /\ Tick
    /\ clock' = Now
    /\ IF ~dbAvail THEN Fail(DbError("join", args))
       ELSE IF ~IsValidIdStr(room_id) \/ ~IsValidIdStr(persona_id)
       THEN Fail(Response("join", 400, "Invalid ids", args, <<>>))
       ELSE LET rid == ObjectId(room_id)
                pid == ObjectId(persona_id)
                FR(r) == r.id = rid /\ r.tenant_id = t
                FP(p) == p.id = pid /\ p.tenant_id = t
            IN IF ~Exists(room, FR)
               THEN Fail(Response("join", 404, "Room not found", args, <<>>))
               ELSE /\ roommember' = UpsertMember(roommember, nextId, t, room_id, persona_id, Now)
                    /\ nextId' = IF IsMember(roommember, t, room_id, persona_id)
                                 THEN nextId ELSE nextId + 1
                    /\ colls' = colls \cup {"roommember"}
                    /\ IF ~Exists(persona, FP)
                       THEN /\ room' = room
                            /\ resp' = Response("join", 404, "Persona not found", args, <<>>)
                            /\ hist' = NoHist
                       ELSE /\ room' = JoinCount(room, roommember, t, room_id, persona_id, Now)
                            /\ resp' = Response("join", 200, "", args, <<[ok |-> TRUE]>>)
                            /\ hist' = [chain |-> "join", base |-> MemberCount(room, rid),
                                        was_member |-> IsMember(roommember, t, room_id, persona_id)]
                    /\ UNCHANGED <<dbAvail, started, persona, message, alert>>

join_room(room_id, persona_id, t) ==
    LET args == [tenant |-> t, room_id |-> room_id, persona_id |-> persona_id] IN
    /\ started
    /\ Tick
    /\ clock' = Now
    /\ IF ~dbAvail THEN Fail(DbError("join", args))
       ELSE IF ~IsValidIdStr(room_id) \/ ~IsValidIdStr(persona_id)
       THEN Fail(Response("join", 400, "Invalid ids", args, <<>>))
       ELSE LET rid == ObjectId(room_id)
                pid == ObjectId(persona_id)
                FR(r) == r.id = rid /\ r.tenant_id = t
                FP(p) == p.id = pid /\ p.tenant_id = t
            IN IF ~Exists(room, FR)
               THEN Fail(Response("join", 404, "Room not found", args, <<>>))
               ELSE IF ~Exists(persona, FP)
               THEN Fail(Response("join", 404, "Persona not found", args, <<>>))
               ELSE /\ roommember' = UpsertMember(roommember, nextId, t, room_id, persona_id, Now)
                    /\ nextId' = IF IsMember(roommember, t, room_id, persona_id)
                                 THEN nextId ELSE nextId + 1
                    /\ room' = JoinCount(room, roommember, t, room_id, persona_id, Now)
                    /\ resp' = Response("join", 200, "", args, <<[ok |-> TRUE]>>)
                    /\ hist' = [chain |-> "join", base |-> MemberCount(room, rid),
                                was_member |-> IsMember(roommember, t, room_id, persona_id)]
                    /\ colls' = colls \cup {"roommember"}
                    /\ UNCHANGED <<dbAvail, started, persona, message, alert>>

leave_room(room_id, persona_id, t) ==
    LET args == [tenant |-> t, room_id |-> room_id, persona_id |-> persona_id]
        F(m) == m.tenant_id = t /\ m.room_id = room_id /\ m.persona_id = persona_id
    IN
    /\ started
    /\ Tick
    /\ clock' = Now
    /\ IF ~dbAvail THEN Fail(DbError("leave", args))
       ELSE /\ roommember' = DeleteOne(roommember, F)
            /\ IF ~IsValidIdStr(room_id)
               THEN \* ObjectId(room_id) raises after the delete was issued
                    /\ room' = room
                    /\ resp' = Response("leave", 500, "Internal Server Error", args, <<>>)
               ELSE /\ room' = LeaveCount(room, roommember, t, room_id, persona_id, Now)
                    /\ resp' = Response("leave", 200, "", args, <<[ok |-> TRUE]>>)
            /\ hist' = IF hist.chain = "join" /\ resp.args = args
                       THEN [hist EXCEPT !.chain = "join_leave"]
                       ELSE NoHist
            /\ UNCHANGED <<dbAvail, started, persona, message, alert, colls, nextId>>

----------------------------------------------------------------------------
(* Text.  A str is a sequence of one-character strings. *)

IsSpace(c) == c \in {" ", "\t", "\n"}

RECURSIVE LStrip(_)
LStrip(s) == IF s # <<>> /\ IsSpace(Head(s)) THEN LStrip(Tail(s)) ELSE s

RECURSIVE RStrip(_)
RStrip(s) ==
    IF s # <<>> /\ IsSpace(s[Len(s)]) THEN RStrip(SubSeq(s, 1, Len(s) - 1)) ELSE s

\* str.strip()
Strip(s) == RStrip(LStrip(s))

UpperChars == <<"A","B","C","D","E","F","G","H","I","J","K","L","M",
                "N","O","P","Q","R","S","T","U","V","W","X","Y","Z">>

LowerChars == <<"a","b","c","d","e","f","g","h","i","j","k","l","m",
                "n","o","p","q","r","s","t","u","v","w","x","y","z">>

LowerChar(c) ==
    IF \E i \in 1..Len(UpperChars) : UpperChars[i] = c
    THEN LowerChars[CHOOSE i \in 1..Len(UpperChars) : UpperChars[i] = c]
    ELSE c

\* str.lower()
Lower(s) == [i \in 1..Len(s) |-> LowerChar(s[i])]

\* bad in text
Contains(s, sub) ==
    \E i \in 1..(Len(s) - Len(sub) + 1) : SubSeq(s, i, i + Len(sub) - 1) = sub

BadWords == {<<"h","a","t","e">>, <<"s","u","i","c","i","d","e">>, <<"s","p","a","m">>}

Text_hi == <<" ", "h", "i", " ">>

Text_hello == <<"h","e","l","l","o">>

Text_spam == <<"t","h","i","s"," ","i","s"," ","S","P","A","M">>

----------------------------------------------------------------------------
(* Sorting.  Every created_at is a fresh reading of the clock, so no two  *)
(* documents of a collection share one and a sort has a single result.     *)

Reverse(docs) == [k \in 1..Len(docs) |-> docs[Len(docs) + 1 - k]]

\* the documents are in ascending order of created_at already
IsAscending(docs) ==
    \A k \in 1..(Len(docs) - 1) : docs[k].created_at < docs[k + 1].created_at

\* the document that k - 1 documents of docs precede in the order of dir
Ranked(docs, dir, k) ==
    docs[CHOOSE i \in 1..Len(docs) :
            Cardinality({j \in 1..Len(docs) :
                            dir * docs[j].created_at < dir * docs[i].created_at}) = k - 1]

\* cursor.sort("created_at", dir) over the documents docs: dir = 1 ascending,
\* dir = -1 descending
SortByCreatedAt(docs, dir) ==
    IF IsAscending(docs)
    THEN IF dir = 1 THEN docs ELSE Reverse(docs)
    ELSE [k \in 1..Len(docs) |-> Ranked(docs, dir, k)]

----------------------------------------------------------------------------
(* Messages *)

\* values of the limit query parameter
Limits == {-1, 0, 2}

\* radius_m values of a nearby query
Radii == {0, 1000}

Contents == {Text_hi}

\* line 197: find(filter).sort("created_at", 1).limit(limit)
MessagePage(found, limit) == Limit(SortByCreatedAt(found, 1), limit)

list_messages(room_id, limit, t) ==
    LET args == [tenant |-> t, room_id |-> room_id, limit |-> limit] IN
    /\ started
    /\ Tick
    /\ clock' = Now
    /\ IF ~dbAvail THEN Fail(DbError("list_messages", args))
       ELSE IF ~IsValidIdStr(room_id)
       THEN Fail(Response("list_messages", 400, "Invalid room id", args, <<>>))
       ELSE LET F(m) == m.tenant_id = t /\ m.room_id = room_id IN
            Fail(Response("list_messages", 200, "", args,
                          MapSeq(MessagePage(Find(message, F), limit), to_str_id)))

MessageDoc(id, t, room_id, persona_id, content, now) ==
    [id |-> id, tenant_id |-> t, room_id |-> room_id, persona_id |-> persona_id,
     content |-> Strip(content), reactions |-> <<>>, created_at |-> now,
     updated_at |-> now, deleted |-> FALSE]

ServerError(op, args) == Response(op, 500, "Internal Server Error", args, <<>>)

send_message(room_id, persona_id, content, t) ==
    LET args == [tenant |-> t, room_id |-> room_id, persona_id |-> persona_id,
                 content |-> content]
        FR(r) == r.id = ObjectId(room_id) /\ r.tenant_id = t
        FP(p) == p.id = ObjectId(persona_id) /\ p.tenant_id = t
    IN
    /\ started
    /\ Tick
    /\ clock' = Now
    /\ IF ~dbAvail THEN Fail(DbError("send_message", args))
       ELSE IF ~IsValidIdStr(room_id)
       THEN Fail(ServerError("send_message", args))   \* ObjectId(room_id) raises
       ELSE IF ~Exists(room, FR)
       THEN Fail(Response("send_message", 404, "Room not found", args, <<>>))
       ELSE IF ~IsValidIdStr(persona_id)
       THEN Fail(ServerError("send_message", args))   \* ObjectId(persona_id) raises
       ELSE IF ~Exists(persona, FP)
       THEN Fail(Response("send_message", 404, "Persona not found", args, <<>>))
       ELSE LET doc == MessageDoc(nextId, t, room_id, persona_id, content, Now) IN
            /\ message' = InsertOne(message, doc)
            /\ nextId' = nextId + 1
            /\ resp' = Response("send_message", 200, "", args, <<to_str_id(doc)>>)
            /\ hist' = NoHist
            /\ colls' = colls \cup {"message"}
            /\ UNCHANGED <<dbAvail, started, persona, room, roommember, alert>>

----------------------------------------------------------------------------
(* Alerts *)

\* Coordinates are in hundredths of a degree, on the grid
\* {35.70, 35.71} x {139.70, 139.71}.
Points == {<<3570, 13970>>, <<3570, 13971>>, <<3571, 13970>>, <<3571, 13971>>}

NearPoints == {<<3570, 13970>>, <<3571, 13970>>}

\* haversine(lat1, lon1, lat2, lon2) of nearby_alerts in millimetres (cut
\* off): R * 2 * asin(sqrt(a)) with R = 6371000.0, as the code computes it in
\* double precision on the grid's points
haversine(lat1, lon1, lat2, lon2) ==
    LET dlat == Abs(lat2 - lat1)
        dlon == Abs(lon2 - lon1)
    IN CASE dlat = 0 /\ dlon = 0 -> 0
         [] dlat = 1 /\ dlon = 0 -> 1111949
         [] dlat = 0 /\ dlon = 1 /\ lat1 = 3570 -> 902995
         [] dlat = 0 /\ dlon = 1 /\ lat1 = 3571 -> 902882
         [] dlat = 1 /\ dlon = 1 -> 1432386

\* int(dist), in metres
IntMetres(mm) == mm \div 1000

C8_WithinOwnRadius(a, lat, lng, radius_m) ==
    haversine(lat, lng, a.lat, a.lng) <= a.radius_m * 1000

C9_WithinRadiusStrict(a, lat, lng, radius_m) ==
    haversine(lat, lng, a.lat, a.lng) < radius_m * 1000

\* dist <= radius_m
WithinRadius(a, lat, lng, radius_m) ==
    haversine(lat, lng, a.lat, a.lng) <= radius_m * 1000

\* find({"tenant_id": tenant_id}) of line 271
AlertsOfTenant(col, t) == LET F(a) == a.tenant_id = t IN Find(col, F)

\* .sort("created_at", -1).limit(200) of line 271
ScannedAlerts(found) == Limit(SortByCreatedAt(found, -1), SCAN_LIMIT)

AlertDoc(id, t, persona_id, type, text, radius_m, pt, now) ==
    [id |-> id, tenant_id |-> t, persona_id |-> persona_id, type |-> type,
     text |-> Strip(text), radius_m |-> radius_m, lat |-> pt[1], lng |-> pt[2],
     status |-> "Active", reactions_real |-> 0, reactions_spam |-> 0,
     reactions_helping |-> 0, created_at |-> now, updated_at |-> now]

C19_create_alert_unchecked(persona_id, type, text, radius_m, pt, t) ==
    LET args == [tenant |-> t, persona_id |-> persona_id, type |-> type, text |-> text,
                 radius_m |-> radius_m, lat |-> pt[1], lng |-> pt[2]]
    IN
    /\ started
    /\ Tick
    /\ clock' = Now
    /\ IF ~dbAvail THEN Fail(DbError("create_alert", args))
       ELSE IF ~IsValidIdStr(persona_id)
       THEN Fail(ServerError("create_alert", args))
       ELSE LET doc == AlertDoc(nextId, t, persona_id, type, text, radius_m, pt, Now) IN
            /\ alert' = InsertOne(alert, doc)
            /\ nextId' = nextId + 1
            /\ colls' = colls \cup {"alert"}
            /\ resp' = Response("create_alert", 200, "", args, <<to_str_id(doc)>>)
            /\ hist' = NoHist
            /\ UNCHANGED <<dbAvail, started, persona, room, roommember, message>>

create_alert(persona_id, type, text, radius_m, pt, t) ==
    LET args == [tenant |-> t, persona_id |-> persona_id, type |-> type, text |-> text,
                 radius_m |-> radius_m, lat |-> pt[1], lng |-> pt[2]]
        FP(p) == p.id = ObjectId(persona_id) /\ p.tenant_id = t
    IN
    /\ started
    /\ Tick
    /\ clock' = Now
    /\ IF ~dbAvail THEN Fail(DbError("create_alert", args))
       ELSE IF ~IsValidIdStr(persona_id)
       THEN Fail(ServerError("create_alert", args))   \* ObjectId(persona_id) raises
       ELSE IF ~Exists(persona, FP)
       THEN Fail(Response("create_alert", 404, "Persona not found", args, <<>>))
       ELSE LET doc == AlertDoc(nextId, t, persona_id, type, text, radius_m, pt, Now) IN
            /\ alert' = InsertOne(alert, doc)
            /\ nextId' = nextId + 1
            /\ colls' = colls \cup {"alert"}
            /\ resp' = Response("create_alert", 200, "", args, <<to_str_id(doc)>>)
            /\ hist' = NoHist
            /\ UNCHANGED <<dbAvail, started, persona, room, roommember, message>>

\* lines 270-277: the alerts of the scan within the radius, each with its
\* distance_m
NearbyItems(scan, lat, lng, radius_m) ==
    LET In(a) == WithinRadius(a, lat, lng, radius_m)
        Item(a) == to_str_id(a) @@ [distance_m |-> IntMetres(haversine(lat, lng, a.lat, a.lng))]
    IN MapSeq(SelectSeq(scan, In), Item)

nearby_alerts(pt, radius_m, t) ==
    LET args == [tenant |-> t, lat |-> pt[1], lng |-> pt[2], radius_m |-> radius_m] IN
    /\ started
    /\ Tick
    /\ clock' = Now
    /\ IF ~dbAvail THEN Fail(DbError("nearby", args))
       ELSE Fail(Response("nearby", 200, "", args,
                          NearbyItems(ScannedAlerts(AlertsOfTenant(alert, t)), pt[1], pt[2], radius_m)))

----------------------------------------------------------------------------
(* Endpoints that do not touch the store *)

read_root ==
    /\ started
    /\ Tick
    /\ clock' = Now
    /\ Fail(Response("root", 200, "", NoArgs, <<[message |-> "Durarara API running"]>>))

test_database ==
    /\ started
    /\ Tick
    /\ clock' = Now
    /\ Fail(Response("test", 200, "", NoArgs,
                     <<[backend |-> "Running",
                        database |-> IF dbAvail THEN "Connected & Working" ELSE "Not Available",
                        collections |-> IF dbAvail THEN colls ELSE {}]>>))

translate(text, target_lang) ==
    /\ started
    /\ Tick
    /\ clock' = Now
    /\ Fail(Response("translate", 200, "", [tenant |-> "", text |-> text, target_lang |-> target_lang],
                     <<[translated |-> text, lang |-> target_lang]>>))

\* any(bad in req.text.lower() for bad in ["hate", "suicide", "spam"])
Flagged(text) == \E bad \in BadWords : Contains(Lower(text), bad)

moderate(text) ==
    /\ started
    /\ Tick
    /\ clock' = Now
    /\ Fail(Response("moderation", 200, "", [tenant |-> "", text |-> text],
                     <<[flagged |-> Flagged(text)]>>))

----------------------------------------------------------------------------
(* Concurrent create_persona: the lookup of line 97 and the insert of line *)
(* 114 are separate storage calls, and other requests run between them.    *)

create_persona_lookup(w, t, h) ==
    LET args == [tenant |-> t, handle |-> h] IN
    /\ started
    /\ inflight[w].pc = "idle"
    /\ left > 0
    /\ left' = left - 1
    /\ IF ~dbAvail
       THEN /\ resp' = DbError("create_persona", args)
            /\ UNCHANGED inflight
       ELSE IF PersonaExists(persona, t, h)
       THEN /\ resp' = Response("create_persona", 400, "Handle already taken", args, <<>>)
            /\ UNCHANGED inflight
       ELSE /\ inflight' = [inflight EXCEPT ![w] = [pc |-> "insert", tenant |-> t, handle |-> h]]
            /\ UNCHANGED resp
    /\ UNCHANGED <<dbAvail, started, persona, room, roommember, message, alert, colls,
                   nextId, clock, hist>>

create_persona_insert(w) ==
    LET t == inflight[w].tenant
        h == inflight[w].handle
        doc == PersonaDoc(nextId, t, h, Now)
    IN
    /\ inflight[w].pc = "insert"
    /\ persona' = InsertOne(persona, doc)
    /\ nextId' = nextId + 1
    /\ clock' = Now
    /\ colls' = colls \cup {"persona"}
    /\ inflight' = [inflight EXCEPT ![w] = [pc |-> "idle"]]
    /\ resp' = Response("create_persona", 200, "", [tenant |-> t, handle |-> h], <<to_str_id(doc)>>)
    /\ UNCHANGED <<dbAvail, started, room, roommember, message, alert, left, hist>>

----------------------------------------------------------------------------
(* Concurrent join_room and leave_room: each storage call is one step, and *)
(* the steps of other requests run between them.  In this specification    *)
(* hist is [chain |-> "members", net, overlapped]: net counts the          *)
(* successful joins minus the completed leaves on the room TheRoom, and    *)
(* overlapped tells that a request was accepted while another was in       *)
(* flight.                                                                 *)

\* the _id of the room the concurrent requests contend for
TheRoom == 1

Busy(w) == inflight[w].pc # "idle"

Overlap(w) == hist.overlapped \/ \E v \in Workers \ {w} : Busy(v)

C17_WriteBackSeen(rooms, rid, seen, d, now) ==
    LET F(r) == r.id = rid
        U(r) == [r EXCEPT !.member_count = seen + d, !.updated_at = now]
    IN UpdateOne(rooms, F, U)

\* update_one({"_id": rid}, {"$inc": {"member_count": d}, ...}): the server
\* adds d to the stored value in one atomic step, whatever value (seen) the
\* handler read from the room before
AtomicInc(rooms, rid, seen, d, now) == IncMemberCount(rooms, rid, d, now)

\* lines 154-163: the db check, the parse of both ids, the lookup of the room
join_room_find_room(w, room_id, persona_id, t) ==
    LET args == [tenant |-> t, room_id |-> room_id, persona_id |-> persona_id]
        FR(r) == r.id = ObjectId(room_id) /\ r.tenant_id = t
    IN
    /\ started
    /\ ~Busy(w)
    /\ left > 0
    /\ left' = left - 1
    /\ IF ~dbAvail
       THEN /\ resp' = DbError("join", args)
            /\ UNCHANGED inflight
       ELSE IF ~IsValidIdStr(room_id) \/ ~IsValidIdStr(persona_id)
       THEN /\ resp' = Response("join", 400, "Invalid ids", args, <<>>)
            /\ UNCHANGED inflight
       ELSE IF ~Exists(room, FR)
       THEN /\ resp' = Response("join", 404, "Room not found", args, <<>>)
            /\ UNCHANGED inflight
       ELSE /\ inflight' = [inflight EXCEPT ![w] =
                               [pc |-> "find_persona", args |-> args,
                                seen |-> room[FirstMatch(room, FR)].member_count]]
            /\ UNCHANGED resp
    /\ hist' = [hist EXCEPT !.overlapped = Overlap(w)]
    /\ UNCHANGED <<dbAvail, started, persona, room, roommember, message, alert, colls,
                   nextId, clock>>

\* lines 164-166: the lookup of the persona
join_room_find_persona(w) ==
    LET args == inflight[w].args
        FP(p) == p.id = ObjectId(args.persona_id) /\ p.tenant_id = args.tenant
    IN
    /\ inflight[w].pc = "find_persona"
    /\ IF ~Exists(persona, FP)
       THEN /\ resp' = Response("join", 404, "Persona not found", args, <<>>)
            /\ inflight' = [inflight EXCEPT ![w] = [pc |-> "idle"]]
       ELSE /\ inflight' = [inflight EXCEPT ![w].pc = "upsert"]
            /\ UNCHANGED resp
    /\ UNCHANGED <<dbAvail, started, persona, room, roommember, message, alert, colls,
                   nextId, clock, left, hist>>

\* lines 167-171: now is read and the membership upserted
join_room_upsert(w) ==
    LET args == inflight[w].args IN
    /\ inflight[w].pc = "upsert"
    /\ roommember' = UpsertMember(roommember, nextId, args.tenant, args.room_id,
                                  args.persona_id, Now)
    /\ nextId' = IF IsMember(roommember, args.tenant, args.room_id, args.persona_id)
                 THEN nextId ELSE nextId + 1
    /\ clock' = Now
    /\ colls' = colls \cup {"roommember"}
    /\ inflight' = [inflight EXCEPT ![w] = [pc |-> "inc", args |-> args,
                                            seen |-> inflight[w].seen, now |-> Now]]
    /\ UNCHANGED <<dbAvail, started, persona, room, message, alert, left, resp, hist>>

\* lines 172-173: the $inc of the room, and the answer
join_room_inc(w) ==
    LET args == inflight[w].args
        rid == ObjectId(args.room_id)
    IN
    /\ inflight[w].pc = "inc"
    /\ room' = AtomicInc(room, rid, inflight[w].seen, 1, inflight[w].now)
    /\ resp' = Response("join", 200, "", args, <<[ok |-> TRUE]>>)
    /\ hist' = [hist EXCEPT !.net = IF rid = TheRoom THEN @ + 1 ELSE @]
    /\ inflight' = [inflight EXCEPT ![w] = [pc |-> "idle"]]
    /\ UNCHANGED <<dbAvail, started, persona, roommember, message, alert, colls,
                   nextId, clock, left>>

\* lines 177-179: the db check and the delete of the membership
leave_room_delete(w, room_id, persona_id, t) ==
    LET args == [tenant |-> t, room_id |-> room_id, persona_id |-> persona_id]
        F(m) == m.tenant_id = t /\ m.room_id = room_id /\ m.persona_id = persona_id
    IN
    /\ started
    /\ ~Busy(w)
    /\ left > 0
    /\ left' = left - 1
    /\ IF ~dbAvail
       THEN /\ resp' = DbError("leave", args)
            /\ UNCHANGED <<inflight, roommember>>
       ELSE /\ roommember' = DeleteOne(roommember, F)
            /\ inflight' = [inflight EXCEPT ![w] = [pc |-> "dec", args |-> args]]
            /\ UNCHANGED resp
    /\ hist' = [hist EXCEPT !.overlapped = Overlap(w)]
    /\ UNCHANGED <<dbAvail, started, persona, room, message, alert, colls, nextId, clock>>

\* lines 180-181: the parse of room_id, the $inc of the room, and the answer
leave_room_inc(w) ==
    LET args == inflight[w].args IN
    /\ inflight[w].pc = "dec"
    /\ IF ~IsValidIdStr(args.room_id)
       THEN /\ resp' = ServerError("leave", args)   \* ObjectId(room_id) raises
            /\ UNCHANGED <<room, clock, hist>>
       ELSE /\ room' = AtomicInc(room, ObjectId(args.room_id), 0, -1, Now)
            /\ clock' = Now
            /\ resp' = Response("leave", 200, "", args, <<[ok |-> TRUE]>>)
            /\ hist' = [hist EXCEPT !.net = IF ObjectId(args.room_id) = TheRoom
                                            THEN @ - 1 ELSE @]
    /\ inflight' = [inflight EXCEPT ![w] = [pc |-> "idle"]]
    /\ UNCHANGED <<dbAvail, started, persona, roommember, message, alert, colls,
                   nextId, left>>

----------------------------------------------------------------------------
(* Specifications *)

\* the process after its construction, the store empty, with a budget of
\* requests
Fresh(budget) ==
    /\ dbAvail \in BOOLEAN
    /\ started = FALSE
    /\ persona = <<>>
    /\ room = <<>>
    /\ roommember = <<>>
    /\ message = <<>>
    /\ alert = <<>>
    /\ colls = {}
    /\ nextId = 1
    /\ clock = 0
    /\ left = budget
    /\ inflight = Idle
    /\ resp = NoResp
    /\ hist = NoHist

Init == Fresh(MaxReq)

Next ==
    \/ ensure_global_room
    \/ \E t \in Tenants, h \in Handles : create_persona(t, h)
    \/ \E t \in Tenants : list_personas(t)
    \/ \E t \in Tenants : list_rooms(t)
    \/ \E t \in Tenants, k \in RoomKinds : create_room(t, k)
    \/ \E t \in Tenants, r \in IdStrings(room), p \in IdStrings(persona) : join_room(r, p, t)
    \/ \E t \in Tenants, r \in IdStrings(room), p \in IdStrings(persona) : leave_room(r, p, t)
    \/ \E t \in Tenants, r \in IdStrings(room), l \in Limits : list_messages(r, l, t)
    \/ \E t \in Tenants, r \in IdStrings(room), p \in IdStrings(persona), c \in Contents :
          send_message(r, p, c, t)
    \/ \E t \in Tenants, p \in IdStrings(persona), pt \in NearPoints :
          create_alert(p, "Help", Text_hi, 2000, pt, t)
    \/ \E t \in Tenants, pt \in NearPoints, r \in Radii : nearby_alerts(pt, r, t)
    \/ read_root
    \/ test_database
    \/ \E x \in {Text_hello} : translate(x, "en")
    \/ \E x \in {Text_hello, Text_spam} : moderate(x)

\* the whole API, requests handled one at a time
Spec == Init /\ [][Next]_vars

RoomInit == Fresh(MaxRoomReq)

RoomNext ==
    \/ ensure_global_room
    \/ \E t \in Tenants, h \in Handles : create_persona(t, h)
    \/ \E t \in Tenants, k \in RoomKinds : create_room(t, k)
    \/ \E t \in Tenants, r \in IdStrings(room), p \in IdStrings(persona) : join_room(r, p, t)
    \/ \E t \in Tenants, r \in IdStrings(room), p \in IdStrings(persona) : leave_room(r, p, t)

\* rooms and membership, requests handled one at a time
RoomSpec == RoomInit /\ [][RoomNext]_vars

\* join issued only for a persona that is not a member of the room, leave
\* only for one that is
DisciplinedNext ==
    \/ ensure_global_room
    \/ \E t \in Tenants, h \in Handles : create_persona(t, h)
    \/ \E t \in Tenants, k \in RoomKinds : create_room(t, k)
    \/ \E t \in Tenants, r \in IdStrings(room), p \in IdStrings(persona) :
          ~IsMember(roommember, t, r, p) /\ join_room(r, p, t)
    \/ \E t \in Tenants, r \in IdStrings(room), p \in IdStrings(persona) :
          IsMember(roommember, t, r, p) /\ leave_room(r, p, t)

\* rooms and membership under disciplined use, requests handled one at a time
DisciplinedSpec == RoomInit /\ [][DisciplinedNext]_vars

BootNext ==
    \/ ensure_global_room
    \/ Restart
    \/ \E t \in Tenants, k \in RoomKinds : create_room(t, k)

\* the process started again and again over the store it left
BootSpec == Init /\ [][BootNext]_vars

\* the store after startup, create_persona("alice") in both tenants and n
\* create_alert requests of the first persona at one point
BulkAlerts(n) ==
    [k \in 1..n |-> AlertDoc(k + 3, TENANT_DEFAULT, StrOfId(2), "Help", Text_hi, 2000,
                             <<3570, 13970>>, k + 3)]

ScanInit ==
    \E n \in {SCAN_LIMIT - 1, SCAN_LIMIT} :
        /\ dbAvail = TRUE
        /\ started = TRUE
        /\ persona = <<PersonaDoc(2, TENANT_DEFAULT, "alice", 2), PersonaDoc(3, "t2", "alice", 3)>>
        /\ room = <<RoomDoc(1, TENANT_DEFAULT, "Global", "global", 1)>>
        /\ roommember = <<>>
        /\ message = <<>>
        /\ alert = BulkAlerts(n)
        /\ colls = {"room", "persona", "alert"}
        /\ nextId = n + 4
        /\ clock = n + 3
        /\ left = MaxScanReq
        /\ inflight = Idle
        /\ resp = Response("create_alert", 200, "",
                           [tenant |-> TENANT_DEFAULT, persona_id |-> StrOfId(2), type |-> "Help",
                            text |-> Text_hi, radius_m |-> 2000, lat |-> 3570, lng |-> 13970],
                           <<to_str_id(alert[n])>>)
        /\ hist = NoHist

ScanNext ==
    \/ \E p \in {2, 3}, pt \in NearPoints :
          create_alert(StrOfId(p), "Help", Text_hi, 2000, pt, persona[p - 1].tenant_id)
    \/ \E t \in Tenants, pt \in Points, r \in Radii : nearby_alerts(pt, r, t)

\* alerts and nearby queries over a store that holds about SCAN_LIMIT alerts
ScanSpec == ScanInit /\ [][ScanNext]_vars

ConcNext ==
    \/ ensure_global_room
    \/ \E w \in Workers, t \in Tenants, h \in Handles : create_persona_lookup(w, t, h)
    \/ \E w \in Workers : create_persona_insert(w)

\* create_persona requests handled concurrently, storage call by storage call
ConcSpec == Init /\ [][ConcNext]_vars

\* the store after startup and create_persona("alice"), create_persona("bob")
\* in the default tenant
MemberInit ==
    /\ dbAvail = TRUE
    /\ started = TRUE
    /\ persona = <<PersonaDoc(2, TENANT_DEFAULT, "alice", 2),
                   PersonaDoc(3, TENANT_DEFAULT, "bob", 3)>>
    /\ room = <<RoomDoc(TheRoom, TENANT_DEFAULT, "Global", "global", 1)>>
    /\ roommember = <<>>
    /\ message = <<>>
    /\ alert = <<>>
    /\ colls = {"room", "persona"}
    /\ nextId = 4
    /\ clock = 3
    /\ left = MaxMemberReq
    /\ inflight = Idle
    /\ resp = Response("create_persona", 200, "", [tenant |-> TENANT_DEFAULT, handle |-> "bob"],
                       <<to_str_id(persona[2])>>)
    /\ hist = [chain |-> "members", net |-> 0, overlapped |-> FALSE]

MemberNext ==
    \/ \E w \in Workers, t \in Tenants, r \in IdStrings(room), p \in IdStrings(persona) :
          join_room_find_room(w, r, p, t)
    \/ \E w \in Workers : join_room_find_persona(w)
    \/ \E w \in Workers : join_room_upsert(w)
    \/ \E w \in Workers : join_room_inc(w)
    \/ \E w \in Workers, t \in Tenants, r \in IdStrings(room), p \in IdStrings(persona) :
          leave_room_delete(w, r, p, t)
    \/ \E w \in Workers : leave_room_inc(w)

\* join and leave requests handled concurrently, storage call by storage call
MemberSpec == MemberInit /\ [][MemberNext]_vars

----------------------------------------------------------------------------
(* Properties *)

GlobalRooms(t) == {i \in 1..Len(room) : IsGlobalRoom(room[i], t)}

\* C1: a successful join(R, P) followed at once by leave(R, P) leaves
\* R.member_count at its value before the join, whether or not P was a
\* member of R before the join.
C1_JoinLeaveRestoresCount ==
    hist.chain = "join_leave" =>
        /\ resp.op = "leave"
        /\ resp.status = 200
        /\ MemberCount(room, ObjectId(resp.args.room_id)) = hist.base

\* C1: the round trip has run for a persona that was a member already
C1_Witness ==
    /\ hist.chain = "join_leave"
    /\ hist.was_member
    /\ resp.op = "leave"

\* C2: create_persona(T, H) fails with 400 "Handle already taken" and leaves
\* the persona collection as it is when T holds a persona with handle H, and
\* otherwise (also when another tenant holds H) succeeds and appends exactly
\* one persona, of tenant T and handle H.
C2_DuplicateHandle ==
    [][(dbAvail /\ left' = left - 1 /\ resp'.op = "create_persona") =>
          LET t == resp'.args.tenant
              h == resp'.args.handle
          IN IF HandleTaken(persona, t, h)
             THEN /\ resp'.status = 400
                  /\ resp'.detail = "Handle already taken"
                  /\ persona' = persona
             ELSE /\ resp'.status = 200
                  /\ Len(persona') = Len(persona) + 1
                  /\ SubSeq(persona', 1, Len(persona)) = persona
                  /\ persona'[Len(persona')].tenant_id = t
                  /\ persona'[Len(persona')].handle = h]_vars

\* C2: a duplicate was refused in one tenant while another tenant holds the
\* same handle
C2_Witness ==
    /\ resp.op = "create_persona"
    /\ resp.status = 400
    /\ \A t \in Tenants : HandleTaken(persona, t, resp.args.handle)

\* C3: no tenant holds two persona documents with the same handle, also when
\* create_persona requests run concurrently.
C3_UniqueHandles ==
    \A i, j \in 1..Len(persona) :
        (persona[i].tenant_id = persona[j].tenant_id /\ persona[i].handle = persona[j].handle)
            => i = j

\* C4: every room has member_count >= 0.
C4_MemberCountNonNegative ==
    \A i \in 1..Len(room) : room[i].member_count >= 0

\* C5: with storage available, a startup run that follows a finished startup
\* run changes nothing in the store and leaves exactly one room with
\* type=global and name=Global in the default tenant.
C5_BootstrapTwice ==
    [][(~started /\ started' /\ dbAvail /\ hist.chain = "startup") =>
          /\ store' = store
          /\ Cardinality(GlobalRooms(TENANT_DEFAULT)') = 1]_vars

\* C6: once startup has completed with storage available, each tenant has
\* exactly one room with type=global and name=Global.
C6_OneGlobalRoomPerTenant ==
    (started /\ dbAvail) => \A t \in Tenants : Cardinality(GlobalRooms(t)) = 1

\* the most items an answer capped at limit holds (an empty answer exceeds
\* no limit)
AtMost(limit) == IF limit < 0 THEN 0 ELSE limit

\* C7: list_messages returns messages in non-decreasing order of created_at
\* and never more than limit of them, for every integer limit.
C7_ListMessagesCapped ==
    (resp.op = "list_messages" /\ resp.status = 200) =>
        /\ Len(resp.body) <= AtMost(resp.args.limit)
        /\ \A k \in 1..(Len(resp.body) - 1) :
              resp.body[k].created_at <= resp.body[k + 1].created_at

\* C8: nearby never returns an alert whose distance from the query point
\* exceeds radius_m, and every alert it returns is of the queried tenant.
C8_NearbyWithinRadius ==
    (resp.op = "nearby" /\ resp.status = 200) =>
        \A k \in 1..Len(resp.body) :
            /\ resp.body[k].tenant_id = resp.args.tenant
            /\ haversine(resp.args.lat, resp.args.lng, resp.body[k].lat, resp.body[k].lng)
                   <= resp.args.radius_m * 1000

\* C8: a query returned some alerts while the filter left out an alert of
\* the tenant and the store holds an alert of another tenant
C8_Witness ==
    /\ resp.op = "nearby"
    /\ Len(resp.body) >= 1
    /\ Len(resp.body) < Len(AlertsOfTenant(alert, resp.args.tenant))
    /\ \E i \in 1..Len(alert) : alert[i].tenant_id # resp.args.tenant

\* the answer of the last nearby query holds alert i with distance_m = 0
Included(i) ==
    \E k \in 1..Len(resp.body) :
        resp.body[k].id = StrOfId(alert[i].id) /\ resp.body[k].distance_m = 0

\* alert i lies at the point of the last nearby query, in its tenant
ExactMatch(i) ==
    /\ alert[i].tenant_id = resp.args.tenant
    /\ alert[i].lat = resp.args.lat
    /\ alert[i].lng = resp.args.lng

\* the other alerts of alert i's tenant created at or after it
NotOlder(i) ==
    {j \in 1..Len(alert) : /\ j # i
                           /\ alert[j].tenant_id = alert[i].tenant_id
                           /\ alert[j].created_at >= alert[i].created_at}

\* C9 as stated: nearby(tenant, lat, lng, 0) includes every alert of the
\* tenant stored at exactly (lat, lng) with distance_m = 0, however many
\* other alerts the tenant holds.
C9_ExactMatchIncluded ==
    (resp.op = "nearby" /\ resp.status = 200 /\ resp.args.radius_m = 0) =>
        \A i \in 1..Len(alert) : ExactMatch(i) => Included(i)

\* C9 as amended: nearby(tenant, lat, lng, 0) includes every alert of the
\* tenant stored at exactly (lat, lng) with distance_m = 0, provided fewer
\* than 200 other alerts of the tenant were created at or after it.
C9_RecentExactMatchIncluded ==
    (resp.op = "nearby" /\ resp.status = 200 /\ resp.args.radius_m = 0) =>
        \A i \in 1..Len(alert) :
            (ExactMatch(i) /\ Cardinality(NotOlder(i)) < SCAN_LIMIT) => Included(i)

\* C9: a query of radius 0 answered with alerts out of a tenant that holds
\* more alerts than one scan reads
C9_Witness ==
    /\ resp.op = "nearby"
    /\ resp.args.radius_m = 0
    /\ Len(resp.body) >= 1
    /\ Len(AlertsOfTenant(alert, resp.args.tenant)) > SCAN_LIMIT

\* the endpoints whose handlers check db
StorageOps == {"list_personas", "create_persona", "list_rooms", "create_room", "join",
               "leave", "list_messages", "send_message", "create_alert", "nearby"}

\* C10 as stated: with db None every endpoint answers 500 and changes no
\* state.
C10_EveryEndpoint500 ==
    [][(~dbAvail /\ left' = left - 1) =>
          /\ resp'.status = 500
          /\ store' = store]_vars

\* C10 as amended: with db None the endpoints that use the store answer 500
\* "Database not configured", the endpoints /, /test, translate and
\* moderation answer 200, and no endpoint changes the store.
C10_StorageEndpoints500 ==
    [][(~dbAvail /\ left' = left - 1) =>
          /\ store' = store
          /\ nextId' = nextId
          /\ IF resp'.op \in StorageOps
             THEN resp'.status = 500 /\ resp'.detail = "Database not configured"
             ELSE resp'.status = 200]_vars

\* C10: a request that writes was refused for want of storage
C10_Witness ==
    /\ ~dbAvail
    /\ resp.op = "leave"
    /\ resp.status = 500

\* the documents of col that belong to another tenant than t
OtherTenants(col, t) == LET F(d) == d.tenant_id # t IN SelectSeq(col, F)

\* the endpoints that write to the store
WriteOps == {"create_persona", "create_room", "join", "leave", "send_message",
             "create_alert"}

\* C11: a request issued with tenant_id T never creates, modifies or deletes
\* a document of another tenant; in particular leave with tenant T and the id
\* of another tenant's room leaves that room's member_count unchanged.
C11_TenantIsolation ==
    [][(dbAvail /\ left' = left - 1 /\ resp'.op \in WriteOps) =>
          LET t == resp'.args.tenant IN
          /\ OtherTenants(persona', t) = OtherTenants(persona, t)
          /\ OtherTenants(room', t) = OtherTenants(room, t)
          /\ OtherTenants(roommember', t) = OtherTenants(roommember, t)
          /\ OtherTenants(message', t) = OtherTenants(message, t)
          /\ OtherTenants(alert', t) = OtherTenants(alert, t)]_vars

\* the id string names a document of col in tenant t
Refers(col, t, s) ==
    /\ IsValidIdStr(s)
    /\ \E i \in 1..Len(col) : col[i].id = ObjectId(s) /\ col[i].tenant_id = t

\* C12: join fails with 400 "Invalid ids" if either id is malformed, else with
\* 404 "Room not found" if the tenant has no room of that id, else with 404
\* "Persona not found" if the tenant has no persona of that id, and succeeds
\* otherwise; a failing join creates no RoomMember record and changes no room.
C12_JoinFailures ==
    [][(dbAvail /\ left' = left - 1 /\ resp'.op = "join") =>
          LET a == resp'.args
              valid == IsValidIdStr(a.room_id) /\ IsValidIdStr(a.persona_id)
              hasRoom == Refers(room, a.tenant, a.room_id)
              hasPersona == Refers(persona, a.tenant, a.persona_id)
          IN /\ ~valid => (resp'.status = 400 /\ resp'.detail = "Invalid ids")
             /\ (valid /\ ~hasRoom) =>
                    (resp'.status = 404 /\ resp'.detail = "Room not found")
             /\ (valid /\ hasRoom /\ ~hasPersona) =>
                    (resp'.status = 404 /\ resp'.detail = "Persona not found")
             /\ (valid /\ hasRoom /\ hasPersona) => resp'.status = 200
             /\ resp'.status # 200 => (roommember' = roommember /\ room' = room)]_vars

\* C12: a join was refused for a persona the tenant does not have, in a room
\* the tenant has
C12_Witness ==
    /\ resp.op = "join"
    /\ resp.status = 404
    /\ resp.detail = "Persona not found"
    /\ IsValidIdStr(resp.args.persona_id)
    /\ Refers(room, resp.args.tenant, resp.args.room_id)

\* the RoomMember records of (t, room_id, persona_id)
MemberRecords(members, t, room_id, persona_id) ==
    {i \in 1..Len(members) : /\ members[i].tenant_id = t
                             /\ members[i].room_id = room_id
                             /\ members[i].persona_id = persona_id}

\* C13: with requests handled one at a time there is at most one RoomMember
\* record per (tenant_id, room_id, persona_id); a join of a member leaves the
\* RoomMember records (and so joined_at) unchanged, and after a leave no
\* record of its triple remains.
C13_OneRecordPerTriple ==
    [][/\ \A i \in 1..Len(roommember') :
              Cardinality(MemberRecords(roommember', roommember'[i].tenant_id,
                                        roommember'[i].room_id,
                                        roommember'[i].persona_id)) = 1
       /\ (dbAvail /\ left' = left - 1 /\ resp'.op = "join" /\ resp'.status = 200
             /\ IsMember(roommember, resp'.args.tenant, resp'.args.room_id,
                         resp'.args.persona_id))
            => roommember' = roommember
       /\ (dbAvail /\ left' = left - 1 /\ resp'.op = "leave")
            => ~IsMember(roommember', resp'.args.tenant, resp'.args.room_id,
                         resp'.args.persona_id)]_vars

\* C13: a member has joined its room again
C13_Witness ==
    /\ hist.chain = "join"
    /\ hist.was_member
    /\ Len(roommember) = 1

\* C14: send_message whose room_id names no room of the tenant fails with 404
\* "Room not found", one whose persona_id names no persona of the tenant fails
\* with 404 "Persona not found", for every value of the ids, malformed ones
\* included, and stores no message.
C14_SendMessageNotFound ==
    [][(dbAvail /\ left' = left - 1 /\ resp'.op = "send_message") =>
          LET a == resp'.args
              hasRoom == Refers(room, a.tenant, a.room_id)
              hasPersona == Refers(persona, a.tenant, a.persona_id)
          IN /\ ~hasRoom =>
                    (resp'.status = 404 /\ resp'.detail = "Room not found")
             /\ (hasRoom /\ ~hasPersona) =>
                    (resp'.status = 404 /\ resp'.detail = "Persona not found")
             /\ (~hasRoom \/ ~hasPersona) => message' = message]_vars

\* C15: with storage available leave never fails: for every room_id and
\* persona_id it answers {ok: true}, and afterwards no RoomMember record of
\* (tenant, room_id, persona_id) exists.
C15_LeaveNeverFails ==
    (dbAvail /\ resp.op = "leave") =>
        /\ resp.status = 200
        /\ resp.body = <<[ok |-> TRUE]>>
        /\ ~IsMember(roommember, resp.args.tenant, resp.args.room_id, resp.args.persona_id)

\* C16: every successful join(R, P) increases R.member_count by exactly 1 and
\* leaves exactly one RoomMember record of P in R, also when P is a member
\* already, and changes no other room's count; no request other than a join
\* or a leave changes a room's member_count (so k joins of one persona into a
\* fresh room give member_count = k with one record).
C16_JoinAddsOne ==
    [][(dbAvail /\ left' = left - 1) =>
          IF resp'.op = "join" /\ resp'.status = 200
          THEN LET a == resp'.args
                   rid == ObjectId(a.room_id)
               IN /\ MemberCount(room', rid) = MemberCount(room, rid) + 1
                  /\ Cardinality(MemberRecords(roommember', a.tenant, a.room_id,
                                               a.persona_id)) = 1
                  /\ \A i \in 1..Len(room) :
                         room[i].id # rid => room'[i].member_count = room[i].member_count
          ELSE resp'.op # "leave" =>
                  \A i \in 1..Len(room) : room'[i].member_count = room[i].member_count]_vars

\* C16: one persona has joined a fresh room twice
C16_Witness ==
    /\ resp.op = "join"
    /\ resp.status = 200
    /\ MemberCount(room, ObjectId(resp.args.room_id)) = 2
    /\ Len(roommember) = 1

\* the RoomMember records of the room with _id rid
RoomRecords(members, rid) ==
    {i \in 1..Len(members) : members[i].room_id = StrOfId(rid)}

\* C18: when requests run one at a time, every join is issued for a persona
\* that is not a member of the room and every leave for one that is, each
\* room's member_count equals the number of its RoomMember records after
\* every request.
C18_CountMatchesMembers ==
    \A i \in 1..Len(room) :
        room[i].member_count = Cardinality(RoomRecords(roommember, room[i].id))

\* C18: a member has left the room it had joined as a newcomer
C18_Witness ==
    /\ hist.chain = "join_leave"
    /\ ~hist.was_member
    /\ resp.op = "leave"
    /\ resp.status = 200

\* C19: every RoomMember record and every message refers to a room and a
\* persona of its own tenant, and every alert to a persona of its tenant.
C19_NoDanglingReferences ==
    /\ \A i \in 1..Len(roommember) :
           /\ Refers(room, roommember[i].tenant_id, roommember[i].room_id)
           /\ Refers(persona, roommember[i].tenant_id, roommember[i].persona_id)
    /\ \A i \in 1..Len(message) :
           /\ Refers(room, message[i].tenant_id, message[i].room_id)
           /\ Refers(persona, message[i].tenant_id, message[i].persona_id)
    /\ \A i \in 1..Len(alert) :
           Refers(persona, alert[i].tenant_id, alert[i].persona_id)

\* C19: the store holds a message and an alert
C19_Witness ==
    /\ Len(message) >= 1
    /\ Len(alert) >= 1

\* C17: no counter update is lost under concurrency: once all concurrent
\* join and leave requests have completed, the room's member_count equals its
\* initial value (0) plus the successful joins minus the completed leaves on
\* it.
C17_NoLostUpdate ==
    (hist.chain = "members" /\ \A w \in Workers : ~Busy(w)) =>
        MemberCount(room, TheRoom) = 0 + hist.net

\* C17: two requests on the room that overlapped have completed, a join
\* among them
C17_Witness ==
    /\ hist.chain = "members"
    /\ hist.overlapped
    /\ \A w \in Workers : ~Busy(w)
    /\ resp.op = "join"
    /\ resp.status = 200
    /\ left = 0

====
